---- MODULE Spec2Model ----
(***************************************************************************)
(* Reddit affiliate-opportunity crawler: the opportunity store             *)
(* (crawler/data_storage.py), the scoring engine and the file-level merge  *)
(* (crawler/keyword_matcher.py), and the orchestration of a full run       *)
(* (crawler/run_crawler.py).                                               *)
(*                                                                         *)
(* Numbers.  Scores are Python floats; the model keeps them as integers in *)
(* units of 1/Scale point (Scale = 20, the divisor of the upvote term), so *)
(* that upvotes/20 and comments/5 are exact.  Time is counted in ticks of  *)
(* 72 minutes, so that age_hours/24 is exactly one unit per tick.          *)
(*                                                                         *)
(* JSON values.  None is the string NoneId, a missing key is MissingId.    *)
(* Opportunity records always carry every key of the Opportunity schema    *)
(* (the pipeline writes all of them, keyword_matcher.py:290-315).          *)
(***************************************************************************)
EXTENDS Integers, Sequences, FiniteSets, TLC

VARIABLES
    db,          \* opportunities_table of TinyDB, in doc_id (insertion) order
    oppFile,     \* content of OPPORTUNITIES_PATH (a list of opportunities)
    oppFileExists, \* os.path.exists(OPPORTUNITIES_PATH)
    rawFile,     \* content of RAW_DATA_PATH (a list of raw threads)
    rawFileExists, \* os.path.exists(RAW_DATA_PATH)
    pc,          \* "idle": no call in progress; "returned": a call has returned
    op,          \* name of the function that returned last
    arg,         \* its argument
    pre,         \* [db, oppFile, rawFile] as they were when it was called
    ret,         \* its return value
    repeat,      \* TRUE when the call repeated the previous call's argument
    statusFile,  \* content of STATUS_FILE
    clock,       \* datetime.now(), in half hours
    run          \* the invocations of run_full_crawler: position, locals, history

vars == <<db, oppFile, oppFileExists, rawFile, rawFileExists, pc, op, arg, pre, ret, repeat,
          statusFile, clock, run>>

----------------------------------------------------------------------------
(* Bounds of the model *)

\* longest batch handed to save_to_db / save_opportunities / save_raw_threads
MaxBatch == 2

\* most threads the raw file holds
MaxRaw == 2

\* score unit: 1/Scale point
Scale == 20

Points(n) == n * Scale

NoneId == "<None>"
MissingId == "<missing>"

Statuses == {"new", "queued", "processed", "ignored"}

----------------------------------------------------------------------------
(* Opportunity-shaped records handed directly to the store or the file *)

PriorityOf(score) ==
    IF score >= Points(80) THEN "high"
    ELSE IF score >= Points(60) THEN "medium" ELSE "low"

MkOpp(tid, score, action, status) ==
    [thread_id |-> tid, opportunity_score |-> score, action_type |-> action,
     priority |-> PriorityOf(score), status |-> status,
     intent |-> "GENERAL", affiliate_matches |-> <<>>]

Opps ==
    {MkOpp("t1", s, a, st) : s \in {Points(60), Points(85)},
                             a \in {"comment", "post"},
                             st \in {"new", "processed"}}
    \cup {MkOpp("t2", Points(60), "comment", "new")}

SeqsUpTo(S, n) == UNION {[1..k -> S] : k \in 0..n}

Batches == SeqsUpTo(Opps, MaxBatch)

----------------------------------------------------------------------------
(* TinyDB table operations used by data_storage.py *)

\* table.get(Thread.thread_id == tid): index of the first matching document, 0 for None
table_get(table, tid) ==
    IF \E i \in 1..Len(table) : table[i].thread_id = tid
    THEN CHOOSE i \in 1..Len(table) :
            /\ table[i].thread_id = tid
            /\ \A j \in 1..(i-1) : table[j].thread_id # tid
    ELSE 0

\* dict.update: the keys of fields overwrite those of doc
dict_update(doc, fields) ==
    [k \in DOMAIN doc |-> IF k \in DOMAIN fields THEN fields[k] ELSE doc[k]]

\* table.update(fields, Thread.thread_id == tid): every matching document is updated
table_update(table, fields, tid) ==
    [i \in 1..Len(table) |->
        IF table[i].thread_id = tid THEN dict_update(table[i], fields) ELSE table[i]]

\* ids of the documents table.update changed (its return value)
table_updated_ids(table, tid) == {i \in 1..Len(table) : table[i].thread_id = tid}

----------------------------------------------------------------------------
(* save_to_db *)

\* (variant) the action_type comparison is forgotten
must_update_score_only(opp, existing) ==
    \/ opp.opportunity_score # existing.opportunity_score
    \/ opp.status = "new"

\* (variant) only changed scores and actions are written, a "new" status is not
must_update_changed_only(opp, existing) ==
    \/ opp.opportunity_score # existing.opportunity_score
    \/ opp.action_type # existing.action_type

\* the update condition of the loop body
must_update(opp, existing) ==
    \/ opp.opportunity_score # existing.opportunity_score
    \/ opp.action_type # existing.action_type
    \/ opp.status = "new"

\* (variant) a changed record is inserted instead of updated
save_one_insert_on_update(st, opp) ==
    LET i == table_get(st.table, opp.thread_id) IN
    IF i = 0
    THEN [table |-> Append(st.table, opp), new_count |-> st.new_count + 1]
    ELSE IF must_update(opp, st.table[i])
         THEN [table |-> Append(st.table, opp), new_count |-> st.new_count]
         ELSE st

\* (variant) updates are counted as well
save_one_counts_updates(st, opp) ==
    LET i == table_get(st.table, opp.thread_id) IN
    IF i = 0
    THEN [table |-> Append(st.table, opp), new_count |-> st.new_count + 1]
    ELSE IF must_update(opp, st.table[i])
         THEN [table |-> table_update(st.table, opp, opp.thread_id),
               new_count |-> st.new_count + 1]
         ELSE st

\* one iteration of the loop over opportunities; st = [table, new_count]
save_one(st, opp) ==
    LET i == table_get(st.table, opp.thread_id) IN
    IF i = 0
    THEN [table |-> Append(st.table, opp), new_count |-> st.new_count + 1]
    ELSE IF must_update(opp, st.table[i])
         THEN [table |-> table_update(st.table, opp, opp.thread_id),
               new_count |-> st.new_count]
         ELSE st

RECURSIVE save_loop(_, _)
save_loop(st, opps) ==
    IF opps = <<>> THEN st ELSE save_loop(save_one(st, Head(opps)), Tail(opps))

\* (variant) every record is looked up in the table as it was before the call
RECURSIVE stale_loop(_, _, _)
stale_loop(old, st, opps) ==
    IF opps = <<>> THEN st
    ELSE LET opp == Head(opps) IN
         stale_loop(old,
            IF table_get(old, opp.thread_id) = 0
            THEN [table |-> Append(st.table, opp), new_count |-> st.new_count + 1]
            ELSE save_one(st, opp),
            Tail(opps))

save_to_db_stale_lookup(table, opps) ==
    stale_loop(table, [table |-> table, new_count |-> 0], opps)

\* save_to_db(opportunities) on a table: the table afterwards and the value returned
save_to_db(table, opps) == save_loop([table |-> table, new_count |-> 0], opps)

----------------------------------------------------------------------------
(* update_opportunity_status *)

update_opportunity_status(table, tid, status) ==
    [table |-> table_update(table, [status |-> status], tid),
     result |-> table_updated_ids(table, tid) # {}]

----------------------------------------------------------------------------
(* import_from_json, sync_opportunities_from_file *)

\* what open() + json.load() give for the file handed to import_from_json
FileContents ==
    {[kind |-> "unreadable", opps |-> <<>>], [kind |-> "not_a_list", opps |-> <<>>]}
    \cup {[kind |-> "list", opps |-> B] : B \in Batches}

\* what they give when the list holds an element that is not a JSON object: opps
\* are the records in front of the first such element
BrokenLists == {[kind |-> "list_bad_element", opps |-> B] : B \in Batches}

\* (variant) the records written before the exception are taken back
import_from_json_rolls_back(table, content) ==
    IF content.kind = "list"
    THEN save_to_db(table, content.opps)
    ELSE [table |-> table, new_count |-> 0]

\* open() or json.load() raising and a non-list are answered with 0 before the table
\* is touched.  save_to_db runs inside the same try: at an element without .get it
\* raises after the records in front have been written, and 0 is returned.
import_from_json(table, content) ==
    IF content.kind = "list"
    THEN save_to_db(table, content.opps)
    ELSE IF content.kind = "list_bad_element"
    THEN [table |-> save_to_db(table, content.opps).table, new_count |-> 0]
    ELSE [table |-> table, new_count |-> 0]

sync_opportunities_from_file(table, exists, file) ==
    IF ~exists
    THEN [table |-> table, new_count |-> 0]
    ELSE save_to_db(table, file)

----------------------------------------------------------------------------
(* save_opportunities: the file-level merge of keyword_matcher.py *)

thread_ids(opps) == {opps[i].thread_id : i \in 1..Len(opps)}

\* (variant) existing_ids is not extended inside the loop
RECURSIVE merge_loop_stale_ids(_, _)
merge_loop_stale_ids(st, opps) ==
    IF opps = <<>> THEN st
    ELSE LET opp == Head(opps) IN
         merge_loop_stale_ids(
            IF opp.thread_id \notin st.existing_ids
            THEN [existing_opportunities |-> Append(st.existing_opportunities, opp),
                  existing_ids |-> st.existing_ids]
            ELSE st,
            Tail(opps))

\* (variant) a record already in the file is replaced by the incoming one
RECURSIVE merge_loop_upsert(_, _)
merge_loop_upsert(st, opps) ==
    IF opps = <<>> THEN st
    ELSE LET opp == Head(opps) IN
         merge_loop_upsert(
            IF opp.thread_id \notin st.existing_ids
            THEN [existing_opportunities |-> Append(st.existing_opportunities, opp),
                  existing_ids |-> st.existing_ids \cup {opp.thread_id}]
            ELSE [existing_opportunities |->
                    table_update(st.existing_opportunities, opp, opp.thread_id),
                  existing_ids |-> st.existing_ids],
            Tail(opps))

\* the loop over opportunities; st = [existing_opportunities, existing_ids]
RECURSIVE merge_loop(_, _)
merge_loop(st, opps) ==
    IF opps = <<>> THEN st
    ELSE LET opp == Head(opps) IN
         merge_loop(
            IF opp.thread_id \notin st.existing_ids
            THEN [existing_opportunities |-> Append(st.existing_opportunities, opp),
                  existing_ids |-> st.existing_ids \cup {opp.thread_id}]
            ELSE st,
            Tail(opps))

\* the list save_opportunities writes to OPPORTUNITIES_PATH
save_opportunities(exists, file, opps) ==
    LET existing_opportunities == IF exists THEN file ELSE <<>> IN
    merge_loop([existing_opportunities |-> existing_opportunities,
                existing_ids |-> thread_ids(existing_opportunities)],
               opps).existing_opportunities

----------------------------------------------------------------------------
(* Text: a str is the sequence of its characters, one-character strings.    *)
(* None and a missing key are the one-element sequences NoneText and        *)
(* MissingText, which no str equals.                                        *)

NoneText == <<"<None>">>
MissingText == <<"<missing>">>

\* dict.get(key, default)
dict_get(value, default) == IF value = MissingText THEN default ELSE value

\* Python's "not x" for a str or None
Falsy(x) == x = <<>> \/ x = NoneText

UpperCase == <<"A", "B", "C", "D", "E", "F", "G", "H", "I", "J", "K", "L", "M", "N", "O",
        "P", "Q", "R", "S", "T", "U", "V", "W", "X", "Y", "Z">>
LowerCase == <<"a", "b", "c", "d", "e", "f", "g", "h", "i", "j", "k", "l", "m", "n", "o",
        "p", "q", "r", "s", "t", "u", "v", "w", "x", "y", "z">>

\* str.lower(), character by character
LowerChar(c) ==
    IF \E i \in 1..Len(UpperCase) : UpperCase[i] = c
    THEN LowerCase[CHOOSE i \in 1..Len(UpperCase) : UpperCase[i] = c]
    ELSE c

Lower(str) == [i \in 1..Len(str) |-> LowerChar(str[i])]

\* sub occurs in str at index i
OccursAt(str, sub, i) ==
    /\ i >= 1
    /\ i + Len(sub) - 1 <= Len(str)
    /\ \A k \in 1..Len(sub) : str[i + k - 1] = sub[k]

\* sub in str
Contains(str, sub) == \E i \in 1..(Len(str) - Len(sub) + 1) : OccursAt(str, sub, i)

\* str.count(sub): occurrences that do not overlap, scanned from the left
RECURSIVE CountFrom(_, _, _)
CountFrom(str, sub, i) ==
    IF i + Len(sub) - 1 > Len(str) THEN 0
    ELSE IF OccursAt(str, sub, i) THEN 1 + CountFrom(str, sub, i + Len(sub))
    ELSE CountFrom(str, sub, i + 1)

Count(str, sub) == CountFrom(str, sub, 1)

\* f"{title.lower()} {body.lower() if body else ''}"
combined_text(title, body) ==
    Lower(title) \o <<" ">> \o (IF Falsy(body) THEN <<>> ELSE Lower(body))

----------------------------------------------------------------------------
(* Catalog: the tables setup_sample_data seeds *)

affiliate_programs_table ==
    <<[id |-> 1, name |-> "WriterAI", category |-> "Content Creation"],
      [id |-> 2, name |-> "GamingGear", category |-> "Gaming"]>>

keywords_table ==
    <<[id |-> 1, keyword |-> <<"b", "e", "s", "t", " ", "g", "a", "m", "i", "n", "g", " ",
        "m", "o", "u", "s", "e">>,
       affiliate_program_id |-> 2],
      [id |-> 2, keyword |-> <<"A", "I", " ", "w", "r", "i", "t", "e", "r", " ", "r", "e",
        "v", "i", "e", "w">>,
       affiliate_program_id |-> 1],
      [id |-> 3, keyword |-> <<"c", "o", "n", "t", "e", "n", "t", " ", "g", "e", "n", "e",
        "r", "a", "t", "i", "o", "n", " ", "t", "o", "o", "l">>,
       affiliate_program_id |-> 1],
      [id |-> 4, keyword |-> <<"m", "e", "c", "h", "a", "n", "i", "c", "a", "l", " ", "k",
        "e", "y", "b", "o", "a", "r", "d", " ", "c", "o", "m", "p", "a", "r", "i", "s", "o",
        "n">>,
       affiliate_program_id |-> 2]>>

subreddits_table ==
    <<[id |-> 1, name |-> <<"r", "/", "B", "l", "o", "g", "g", "i", "n", "g">>,
        category |-> "Content Creation"],
      [id |-> 2, name |-> <<"r", "/", "S", "E", "O">>, category |-> "Marketing"],
      [id |-> 3, name |-> <<"r", "/", "c", "o", "n", "t", "e", "n", "t", "m", "a", "r", "k",
        "e", "t", "i", "n", "g">>, category |-> "Marketing"],
      [id |-> 4, name |-> <<"r", "/", "G", "a", "m", "i", "n", "g", "M", "o", "u", "s",
        "e">>, category |-> "Gaming"],
      [id |-> 5, name |-> <<"r", "/", "M", "e", "c", "h", "a", "n", "i", "c", "a", "l", "K",
        "e", "y", "b", "o", "a", "r", "d", "s">>, category |-> "Gaming"]>>

----------------------------------------------------------------------------
(* detect_thread_intent *)

\* a regular expression of INTENT_PATTERNS:
\*   "lit": one of the literals a;   "seq": one of a, then .*, then one of b;
\*   "end": the literal a followed by $
\* "." matches any character but a newline; "$" matches at the end of the text and
\* before a newline that ends it.
NoNewline(str, from, to) == \A k \in from..to : str[k] # "\n"

MatchesSeq(str, a, b) ==
    \E i \in 1..Len(str) :
        /\ OccursAt(str, a, i)
        /\ \E j \in (i + Len(a))..Len(str) :
            /\ OccursAt(str, b, j)
            /\ NoNewline(str, i + Len(a), j - 1)

MatchesEnd(str, a) ==
    \/ OccursAt(str, a, Len(str) - Len(a) + 1)
    \/ (Len(str) >= 1 /\ str[Len(str)] = "\n" /\ OccursAt(str, a, Len(str) - Len(a)))

\* re.search(pattern, text, re.IGNORECASE) on a text that is already lower case
re_search(pattern, str) ==
    IF pattern.kind = "lit" THEN \E a \in pattern.a : Contains(str, Lower(a))
    ELSE IF pattern.kind = "seq"
    THEN \E a \in pattern.a, b \in pattern.b : MatchesSeq(str, Lower(a), Lower(b))
    ELSE \E a \in pattern.a : MatchesEnd(str, Lower(a))
\* the categories in the order of the dict literal, each with its patterns
INTENT_PATTERNS ==
    <<[intent |-> "DISCOVERY", patterns |-> <<
          \* r'best .*for'
          [kind |-> "seq", a |-> {<<"b", "e", "s", "t", " ">>}, b |-> {<<"f", "o", "r">>}],
          \* r'recommend .* (for|to)'
          [kind |-> "seq", a |-> {<<"r", "e", "c", "o", "m", "m", "e", "n", "d", " ">>}, b |-> {<<" ", "f", "o", "r">>, <<" ", "t", "o">>}],
          \* r'looking for .* (that|which|to)'
          [kind |-> "seq", a |-> {<<"l", "o", "o", "k", "i", "n", "g", " ", "f", "o", "r", " ">>}, b |-> {<<" ", "t", "h", "a", "t">>, <<" ", "w", "h", "i", "c", "h">>, <<" ", "t", "o">>}],
          \* r'what .* (should|would|could|is best)'
          [kind |-> "seq", a |-> {<<"w", "h", "a", "t", " ">>}, b |-> {<<" ", "s", "h", "o", "u", "l", "d">>, <<" ", "w", "o", "u", "l", "d">>, <<" ", "c", "o", "u", "l", "d">>, <<" ", "i", "s", " ", "b", "e", "s", "t">>}],
          \* r'suggest'
          [kind |-> "lit", a |-> {<<"s", "u", "g", "g", "e", "s", "t">>}, b |-> {}],
          \* r'advice'
          [kind |-> "lit", a |-> {<<"a", "d", "v", "i", "c", "e">>}, b |-> {}],
          \* r'help.*choose'
          [kind |-> "seq", a |-> {<<"h", "e", "l", "p">>}, b |-> {<<"c", "h", "o", "o", "s", "e">>}],
          \* r'good .* for'
          [kind |-> "seq", a |-> {<<"g", "o", "o", "d", " ">>}, b |-> {<<" ", "f", "o", "r">>}],
          \* r'need .* recommendation'
          [kind |-> "seq", a |-> {<<"n", "e", "e", "d", " ">>}, b |-> {<<" ", "r", "e", "c", "o", "m", "m", "e", "n", "d", "a", "t", "i", "o", "n">>}]>>],
      [intent |-> "COMPARISON", patterns |-> <<
          \* r'(vs|versus|or|\bor\b)'
          [kind |-> "lit", a |-> {<<"v", "s">>, <<"v", "e", "r", "s", "u", "s">>, <<"o", "r">>}, b |-> {}],
          \* r'compare'
          [kind |-> "lit", a |-> {<<"c", "o", "m", "p", "a", "r", "e">>}, b |-> {}],
          \* r'difference between'
          [kind |-> "lit", a |-> {<<"d", "i", "f", "f", "e", "r", "e", "n", "c", "e", " ", "b", "e", "t", "w", "e", "e", "n">>}, b |-> {}],
          \* r'which is better'
          [kind |-> "lit", a |-> {<<"w", "h", "i", "c", "h", " ", "i", "s", " ", "b", "e", "t", "t", "e", "r">>}, b |-> {}],
          \* r'(better|worse) than'
          [kind |-> "lit", a |-> {<<"b", "e", "t", "t", "e", "r", " ", "t", "h", "a", "n">>, <<"w", "o", "r", "s", "e", " ", "t", "h", "a", "n">>}, b |-> {}],
          \* r'(alternative|comparison)'
          [kind |-> "lit", a |-> {<<"a", "l", "t", "e", "r", "n", "a", "t", "i", "v", "e">>, <<"c", "o", "m", "p", "a", "r", "i", "s", "o", "n">>}, b |-> {}]>>],
      [intent |-> "SHOWCASE", patterns |-> <<
          \* r'(just|finally) .* (made|created|launched|finished|completed)'
          [kind |-> "seq", a |-> {<<"j", "u", "s", "t", " ">>, <<"f", "i", "n", "a", "l", "l", "y", " ">>}, b |-> {<<" ", "m", "a", "d", "e">>, <<" ", "c", "r", "e", "a", "t", "e", "d">>, <<" ", "l", "a", "u", "n", "c", "h", "e", "d">>, <<" ", "f", "i", "n", "i", "s", "h", "e", "d">>, <<" ", "c", "o", "m", "p", "l", "e", "t", "e", "d">>}],
          \* r'check out my'
          [kind |-> "lit", a |-> {<<"c", "h", "e", "c", "k", " ", "o", "u", "t", " ", "m", "y">>}, b |-> {}],
          \* r'I made'
          [kind |-> "lit", a |-> {<<"I", " ", "m", "a", "d", "e">>}, b |-> {}],
          \* r'look what'
          [kind |-> "lit", a |-> {<<"l", "o", "o", "k", " ", "w", "h", "a", "t">>}, b |-> {}],
          \* r'sharing my'
          [kind |-> "lit", a |-> {<<"s", "h", "a", "r", "i", "n", "g", " ", "m", "y">>}, b |-> {}],
          \* r'I built'
          [kind |-> "lit", a |-> {<<"I", " ", "b", "u", "i", "l", "t">>}, b |-> {}],
          \* r'I created'
          [kind |-> "lit", a |-> {<<"I", " ", "c", "r", "e", "a", "t", "e", "d">>}, b |-> {}]>>],
      [intent |-> "QUESTION", patterns |-> <<
          \* r'how (do|to|can|should)'
          [kind |-> "lit", a |-> {<<"h", "o", "w", " ", "d", "o">>, <<"h", "o", "w", " ", "t", "o">>, <<"h", "o", "w", " ", "c", "a", "n">>, <<"h", "o", "w", " ", "s", "h", "o", "u", "l", "d">>}, b |-> {}],
          \* r'what is'
          [kind |-> "lit", a |-> {<<"w", "h", "a", "t", " ", "i", "s">>}, b |-> {}],
          \* r'\?$'
          [kind |-> "end", a |-> {<<"?">>}, b |-> {}],
          \* r'(question|confused|help|advice) .* (about|with|on|for)'
          [kind |-> "seq", a |-> {<<"q", "u", "e", "s", "t", "i", "o", "n", " ">>, <<"c", "o", "n", "f", "u", "s", "e", "d", " ">>, <<"h", "e", "l", "p", " ">>, <<"a", "d", "v", "i", "c", "e", " ">>}, b |-> {<<" ", "a", "b", "o", "u", "t">>, <<" ", "w", "i", "t", "h">>, <<" ", "o", "n">>, <<" ", "f", "o", "r">>}],
          \* r'problem with'
          [kind |-> "lit", a |-> {<<"p", "r", "o", "b", "l", "e", "m", " ", "w", "i", "t", "h">>}, b |-> {}],
          \* r'trouble with'
          [kind |-> "lit", a |-> {<<"t", "r", "o", "u", "b", "l", "e", " ", "w", "i", "t", "h">>}, b |-> {}],
          \* r'issue with'
          [kind |-> "lit", a |-> {<<"i", "s", "s", "u", "e", " ", "w", "i", "t", "h">>}, b |-> {}]>>]>>

category_matches(category, str) ==
    \E n \in 1..Len(category.patterns) : re_search(category.patterns[n], str)

\* (variant) the last category with a matching pattern wins
detect_thread_intent_last_hit(title, body) ==
    LET str == combined_text(title, body)
        hits == {c \in 1..Len(INTENT_PATTERNS) : category_matches(INTENT_PATTERNS[c], str)}
    IN IF hits = {} THEN "GENERAL"
       ELSE INTENT_PATTERNS[CHOOSE c \in hits : \A d \in hits : c >= d].intent

\* the loops return at the first pattern that matches: the first category, in the
\* order of the dict, that has one

detect_thread_intent(title, body) ==
    LET str == combined_text(title, body)
        hits == {c \in 1..Len(INTENT_PATTERNS) : category_matches(INTENT_PATTERNS[c], str)}
    IN IF hits = {} THEN "GENERAL"
       ELSE INTENT_PATTERNS[CHOOSE c \in hits : \A d \in hits : c <= d].intent

----------------------------------------------------------------------------
(* match_affiliate_keywords.  A strength is kept in tenths (0.7 is 7). *)

Min(a, b) == IF a <= b THEN a ELSE b
Max(a, b) == IF a >= b THEN a ELSE b

\* affiliate_programs_table.get(doc_id=n): index of the program, 0 for None
program_get(doc_id) == IF doc_id \in 1..Len(affiliate_programs_table) THEN doc_id ELSE 0

\* (variant) the frequency bonus grows with every occurrence
match_strength_unbounded_frequency(title_match, count, subreddit_relevant) ==
    (IF title_match THEN 7 ELSE 4) + count + (IF subreddit_relevant THEN 2 ELSE 0)

\* strength of one keyword hit, before it is capped
match_strength(title_match, count, subreddit_relevant) ==
    (IF title_match THEN 7 ELSE 4) + Min(3, count)
        + (IF subreddit_relevant THEN 2 ELSE 0)

\* the match appended for keyword_entry, or <<>> when it is skipped
keyword_match(keyword_entry, title, body, subreddit) ==
    LET keyword == Lower(keyword_entry.keyword)
        str == combined_text(title, body)
        p == program_get(keyword_entry.affiliate_program_id)
    IN IF Contains(str, keyword) /\ p # 0
       THEN LET program == affiliate_programs_table[p]
                title_match == Contains(Lower(title), keyword)
                count == Count(str, keyword)
                subreddit_relevant ==
                    \E n \in 1..Len(subreddits_table) :
                        /\ subreddits_table[n].category = program.category
                        /\ Lower(subreddits_table[n].name) = Lower(subreddit)
            IN <<[keyword |-> keyword, program_name |-> program.name,
                  program_id |-> program.id,
                  strength |-> Min(10, match_strength(title_match, count, subreddit_relevant)),
                  title_match |-> title_match, count |-> count,
                  subreddit_relevant |-> subreddit_relevant]>>
       ELSE <<>>

RECURSIVE matches_from(_, _, _, _)
matches_from(n, title, body, subreddit) ==
    IF n > Len(keywords_table) THEN <<>>
    ELSE keyword_match(keywords_table[n], title, body, subreddit)
            \o matches_from(n + 1, title, body, subreddit)

match_affiliate_keywords(title, body, subreddit) == matches_from(1, title, body, subreddit)

----------------------------------------------------------------------------
(* calculate_opportunity_score, determine_action_type *)

\* created_utc: a str datetime.fromisoformat accepts without an offset ("naive",
\* at tick `at`), one it accepts with a UTC offset ("aware"), or anything else
\* ("invalid": not a str, empty, not ISO).  A missing key reads as ''.
Naive(at) == [kind |-> "naive", at |-> at]
Aware(at) == [kind |-> "aware", at |-> at]
Invalid == [kind |-> "invalid", at |-> 0]

\* the try block: fromisoformat raises ValueError or TypeError on an invalid value;
\* datetime.now() is naive, and subtracting an aware datetime from it raises
\* TypeError; both end in the except branch
freshness_score(created_utc, now) ==
    IF created_utc.kind = "naive"
    THEN Max(0, Points(10) - (now - created_utc.at))
    ELSE Points(5)

\* (variant) a SHOWCASE thread earns nothing for its intent
intent_scores_showcase_zero(intent) ==
    CASE intent = "DISCOVERY" -> 25
      [] intent = "COMPARISON" -> 20
      [] intent = "QUESTION" -> 15
      [] intent = "SHOWCASE" -> 0
      [] OTHER -> 10

intent_scores(intent) ==
    CASE intent = "DISCOVERY" -> 25
      [] intent = "COMPARISON" -> 20
      [] intent = "QUESTION" -> 15
      [] intent = "SHOWCASE" -> 5
      [] intent = "GENERAL" -> 10
      [] OTHER -> 10

\* max(affiliate_matches, key=strength)['strength']
best_strength(affiliate_matches) ==
    LET all == {affiliate_matches[n].strength : n \in 1..Len(affiliate_matches)}
    IN CHOOSE x \in all : \A y \in all : y <= x

\* (variant) the total is returned without the final min/max
calculate_opportunity_score_unclamped(thread, intent, affiliate_matches, now) ==
    Points(50) + Min(Points(15), (thread.upvotes * Scale) \div 20)
        + Min(Points(10), (thread.comments * Scale) \div 5)
        + Points(intent_scores(intent))
        + (IF affiliate_matches # <<>>
           THEN (best_strength(affiliate_matches) * Points(40)) \div 10 ELSE 0)
        + freshness_score(thread.created_utc, now)

calculate_opportunity_score(thread, intent, affiliate_matches, now) ==
    LET base_score == Points(50)
        upvote_score == Min(Points(15), (thread.upvotes * Scale) \div 20)
        comment_score == Min(Points(10), (thread.comments * Scale) \div 5)
        intent_score == Points(intent_scores(intent))
        match_score == IF affiliate_matches # <<>>
                       THEN (best_strength(affiliate_matches) * Points(40)) \div 10
                       ELSE 0
        total_score == base_score + upvote_score + comment_score + intent_score
                        + match_score + freshness_score(thread.created_utc, now)
    IN Min(Points(100), Max(0, total_score))

\* (variant) a score of exactly 70 is not high enough
determine_action_type_above_70(score, intent) ==
    IF score > Points(70) \/ intent \in {"DISCOVERY", "COMPARISON", "QUESTION"}
    THEN "comment"
    ELSE "post"

determine_action_type(score, intent) ==
    IF score >= Points(70) \/ intent \in {"DISCOVERY", "COMPARISON", "QUESTION"}
    THEN "comment"
    ELSE "post"

----------------------------------------------------------------------------
(* Raw threads *)

MkThread(id, title, body, subreddit, upvotes, comments, created_utc) ==
    [id |-> id, title |-> title, body |-> body, subreddit |-> subreddit,
     upvotes |-> upvotes, comments |-> comments, created_utc |-> created_utc]

\* "Best gaming mouse for FPS?" in r/GamingMouse
ThreadGood ==
    MkThread("t1", <<"B", "e", "s", "t", " ", "g", "a", "m", "i", "n", "g", " ", "m", "o", "u", "s", "e", " ", "f", "o", "r", " ", "F", "P", "S", "?">>,
             <<>>, <<"r", "/", "G", "a", "m", "i", "n", "g", "M", "o", "u", "s", "e">>, 40, 10, Naive(0))

\* no 'id' key: acquisition failed
ThreadNoId ==
    MkThread(MissingId, <<"b", "e", "s", "t", " ", "g", "a", "m", "i", "n", "g", " ", "m", "o", "u", "s", "e">>,
             <<>>, <<"r", "/", "p", "c", "g", "a", "m", "i", "n", "g">>, 0, 0, Invalid)

\* 'id': None, what parse_reddit_thread stores for a url without /comments/
ThreadNoneId ==
    MkThread(NoneId, <<"A", "I", " ", "w", "r", "i", "t", "e", "r", " ", "r", "e", "v", "i", "e", "w">>,
             <<>>, <<"r", "/", "S", "E", "O">>, 0, 0, Naive(0))

\* no keyword of the catalog occurs
ThreadNoMatch ==
    MkThread("t2", <<"h", "e", "l", "l", "o">>,
             <<>>, <<"r", "/", "S", "E", "O">>, 10, 2, Naive(0))

\* no 'title' key
ThreadNoTitle ==
    MkThread("t3", MissingText, <<"b", "e", "s", "t", " ", "g", "a", "m", "i", "n", "g", " ", "m", "o", "u", "s", "e">>,
             <<"r", "/", "G", "a", "m", "i", "n", "g", "M", "o", "u", "s", "e">>, 10, 2, Naive(0))

\* no 'subreddit' key
ThreadNoSubreddit ==
    MkThread("t4", <<"b", "e", "s", "t", " ", "g", "a", "m", "i", "n", "g", " ", "m", "o", "u", "s", "e">>,
             <<>>, MissingText, 10, 2, Naive(0))

\* the weakest opportunity: a SHOWCASE title, one keyword hit in the body only, a
\* subreddit outside the catalog, no engagement
ThreadShowcase ==
    MkThread("t5", <<"I", " ", "m", "a", "d", "e", " ", "t", "h", "i", "s">>,
             <<"a", " ", "c", "o", "n", "t", "e", "n", "t", " ", "g", "e", "n", "e", "r", "a", "t", "i", "o", "n", " ", "t", "o", "o", "l">>,
             <<"r", "/", "S", "a", "a", "S">>, 0, 0, Naive(0))

Threads ==
    {ThreadGood, ThreadNoId, ThreadNoneId, ThreadNoMatch, ThreadNoTitle, ThreadNoSubreddit,
     ThreadShowcase}

\* datetime.now() at the calls of the model
Times == {0, 300}

----------------------------------------------------------------------------
(* save_raw_threads (reddit_scraper.py) *)

raw_ids(threads) ==
    {IF threads[n].id = MissingId THEN NoneId ELSE threads[n].id : n \in 1..Len(threads)}

\* existing_ids is computed once, before the loop
RECURSIVE raw_loop(_, _, _)
raw_loop(existing_threads, existing_ids, threads) ==
    IF threads = <<>> THEN existing_threads
    ELSE LET thread == Head(threads)
             id == IF thread.id = MissingId THEN NoneId ELSE thread.id
         IN raw_loop(IF id \notin existing_ids
                     THEN Append(existing_threads, thread) ELSE existing_threads,
                     existing_ids, Tail(threads))

save_raw_threads(exists, file, threads) ==
    LET existing_threads == IF exists THEN file ELSE <<>> IN
    raw_loop(existing_threads, raw_ids(existing_threads), threads)

----------------------------------------------------------------------------
(* process_threads_to_opportunities *)

\* (variant) the priority tiers start at 90 and 70
opportunity_tiers_90_70(thread, title, intent, affiliate_matches, score, action_type) ==
    [thread_id |-> IF thread.id = MissingId THEN "" ELSE thread.id,
     opportunity_score |-> score,
     action_type |-> action_type,
     priority |-> IF score >= Points(90) THEN "high"
                  ELSE IF score >= Points(70) THEN "medium" ELSE "low",
     status |-> "new",
     intent |-> intent,
     affiliate_matches |->
        [n \in 1..Len(affiliate_matches) |->
            [keyword |-> affiliate_matches[n].keyword,
             program_name |-> affiliate_matches[n].program_name,
             program_id |-> affiliate_matches[n].program_id,
             match_strength |-> affiliate_matches[n].strength]]]

\* the opportunity built from a thread (the other keys are copied from the thread)
opportunity(thread, title, intent, affiliate_matches, score, action_type) ==
    [thread_id |-> IF thread.id = MissingId THEN "" ELSE thread.id,
     opportunity_score |-> score,
     action_type |-> action_type,
     priority |-> IF score >= Points(80) THEN "high"
                  ELSE IF score >= Points(60) THEN "medium" ELSE "low",
     status |-> "new",
     intent |-> intent,
     affiliate_matches |->
        [n \in 1..Len(affiliate_matches) |->
            [keyword |-> affiliate_matches[n].keyword,
             program_name |-> affiliate_matches[n].program_name,
             program_id |-> affiliate_matches[n].program_id,
             match_strength |-> affiliate_matches[n].strength]]]

\* (variant) a thread without a keyword match is scored and kept
process_thread_keeps_unmatched(thread, now) ==
    LET title == dict_get(thread.title, <<>>)
        body == dict_get(thread.body, <<>>)
        subreddit == dict_get(thread.subreddit, <<>>)
    IN IF Falsy(title) \/ Falsy(subreddit) THEN <<>>
       ELSE LET intent == detect_thread_intent(title, body)
                affiliate_matches == match_affiliate_keywords(title, body, subreddit)
                score == calculate_opportunity_score(thread, intent, affiliate_matches, now)
            IN <<opportunity(thread, title, intent, affiliate_matches, score,
                             determine_action_type(score, intent))>>

\* the loop body for one thread: <<opportunity>>, or <<>> when the thread is skipped
process_thread(thread, now) ==
    LET title == dict_get(thread.title, <<>>)
        body == dict_get(thread.body, <<>>)
        subreddit == dict_get(thread.subreddit, <<>>)
    IN IF Falsy(title) \/ Falsy(subreddit) THEN <<>>
       ELSE LET intent == detect_thread_intent(title, body)
                affiliate_matches == match_affiliate_keywords(title, body, subreddit)
            IN IF affiliate_matches = <<>> THEN <<>>
               ELSE LET score == calculate_opportunity_score(thread, intent,
                                                             affiliate_matches, now)
                        action_type == determine_action_type(score, intent)
                    IN <<opportunity(thread, title, intent, affiliate_matches,
                                     score, action_type)>>

\* process_thread tabulated over the threads and the times of the model
process_thread_table == [thread \in Threads, now \in Times |-> process_thread(thread, now)]

\* the loop over threads
RECURSIVE process_loop(_, _)
process_loop(threads, now) ==
    IF threads = <<>> THEN <<>>
    ELSE process_thread_table[Head(threads), now] \o process_loop(Tail(threads), now)

\* list.sort(key=opportunity_score, reverse=True): stable, highest score first
RECURSIVE sort_by_score(_)
sort_by_score(opps) ==
    IF opps = <<>> THEN <<>>
    ELSE LET rest == sort_by_score(Tail(opps))
             opp == Head(opps)
             ahead == {n \in 1..Len(rest) :
                        rest[n].opportunity_score > opp.opportunity_score}
         IN SubSeq(rest, 1, Cardinality(ahead)) \o <<opp>>
                \o SubSeq(rest, Cardinality(ahead) + 1, Len(rest))

\* the opportunities returned; they are also merged into the opportunities file
process_threads_to_opportunities(threads, now) == sort_by_score(process_loop(threads, now))

----------------------------------------------------------------------------
(* Actions *)

Snapshot == [db |-> db, oppFile |-> oppFile, rawFile |-> rawFile]

NoSnapshot == [db |-> <<>>, oppFile |-> <<>>, rawFile |-> <<>>]

OppFile == <<oppFile, oppFileExists>>

RawFile == <<rawFile, rawFileExists>>

Files == <<OppFile, RawFile>>

Crawler == <<statusFile, clock, run>>

\* bookkeeping of a call made while no call is in progress
Called(name, a) ==
    /\ pc = "idle"
    /\ pc' = "returned"
    /\ op' = name
    /\ arg' = a
    /\ pre' = Snapshot
    /\ repeat' = FALSE
    /\ UNCHANGED Crawler

Call_save_to_db(B) ==
    /\ Called("save_to_db", B)
    /\ LET r == save_to_db(db, B) IN
        /\ db' = r.table
        /\ ret' = r.new_count
    /\ UNCHANGED Files

\* the caller calls save_to_db again at once with the batch it has just saved
Call_save_to_db_again ==
    /\ pc = "returned"
    /\ op = "save_to_db"
    /\ ~repeat
    /\ LET r == save_to_db(db, arg) IN
        /\ db' = r.table
        /\ ret' = r.new_count
    /\ pre' = Snapshot
    /\ repeat' = TRUE
    /\ UNCHANGED <<op, arg, pc, Files, Crawler>>

Call_import_from_json(content) ==
    /\ Called("import_from_json", content)
    /\ LET r == import_from_json(db, content) IN
        /\ db' = r.table
        /\ ret' = r.new_count
    /\ UNCHANGED Files

Call_sync_opportunities_from_file ==
    /\ Called("sync_opportunities_from_file", <<>>)
    /\ LET r == sync_opportunities_from_file(db, oppFileExists, oppFile) IN
        /\ db' = r.table
        /\ ret' = r.new_count
    /\ UNCHANGED Files

Call_update_opportunity_status(tid, status) ==
    /\ Called("update_opportunity_status", <<tid, status>>)
    /\ LET r == update_opportunity_status(db, tid, status) IN
        /\ db' = r.table
        /\ ret' = r.result
    /\ UNCHANGED Files

Call_save_opportunities(B) ==
    /\ Called("save_opportunities", B)
    /\ oppFile' = save_opportunities(oppFileExists, oppFile, B)
    /\ oppFileExists' = TRUE
    /\ ret' = 0
    /\ UNCHANGED <<db, RawFile>>

Call_save_raw_threads(threads) ==
    /\ Called("save_raw_threads", threads)
    /\ Len(rawFile) + Len(threads) <= MaxRaw
    /\ rawFile' = save_raw_threads(rawFileExists, rawFile, threads)
    /\ rawFileExists' = TRUE
    /\ ret' = 0
    /\ UNCHANGED <<db, OppFile>>

\* with no raw file the function returns [] before it touches the opportunities file
Call_process_threads_to_opportunities(now) ==
    /\ Called("process_threads_to_opportunities", now)
    /\ IF rawFileExists
       THEN LET opportunities == process_threads_to_opportunities(rawFile, now) IN
            /\ oppFile' = save_opportunities(oppFileExists, oppFile, opportunities)
            /\ oppFileExists' = TRUE
            /\ ret' = opportunities
       ELSE /\ ret' = <<>>
            /\ UNCHANGED OppFile
    /\ UNCHANGED <<db, RawFile>>

Call_calculate_opportunity_score(thread, intent, affiliate_matches, now) ==
    /\ Called("calculate_opportunity_score",
              [thread |-> thread, intent |-> intent,
               affiliate_matches |-> affiliate_matches, now |-> now])
    /\ ret' = calculate_opportunity_score(thread, intent, affiliate_matches, now)
    /\ UNCHANGED <<db, Files>>

\* the caller has looked at the result and goes on
Return ==
    /\ pc = "returned"
    /\ pc' = "idle"
    /\ op' = "none"
    /\ arg' = <<>>
    /\ pre' = NoSnapshot
    /\ ret' = 0
    /\ repeat' = FALSE
    /\ UNCHANGED <<db, Files, Crawler>>

\* one record per invocation of run_full_crawler
Runs == {1, 2}

NotInvoked ==
    [pc |-> "idle", force |-> FALSE, written |-> <<>>, steps |-> <<>>,
     raised |-> FALSE, result |-> FALSE]

Init ==
    /\ db = <<>>
    /\ oppFile = <<>>
    /\ oppFileExists = FALSE
    /\ rawFile = <<>>
    /\ rawFileExists = FALSE
    /\ pc = "idle"
    /\ op = "none"
    /\ arg = <<>>
    /\ pre = NoSnapshot
    /\ ret = 0
    /\ repeat = FALSE
    /\ statusFile = [exists |-> FALSE, status |-> "none", last_updated |-> 0]
    /\ clock = 0
    /\ run = [r \in Runs |-> NotInvoked]

StoreTids == {"t1", "t2"}

\* the store on its own: arbitrary batches saved and imported, statuses set
NextStore ==
    \/ \E B \in Batches : Call_save_to_db(B)
    \/ Call_save_to_db_again
    \/ \E c \in FileContents : Call_import_from_json(c)
    \/ \E tid \in StoreTids, s \in Statuses : Call_update_opportunity_status(tid, s)
    \/ Return

SpecStore == Init /\ [][NextStore]_vars

\* the opportunities file and the store behind it
NextFile ==
    \/ \E B \in Batches : Call_save_opportunities(B)
    \/ Call_sync_opportunities_from_file
    \/ \E tid \in StoreTids, s \in Statuses : Call_update_opportunity_status(tid, s)
    \/ Return

SpecFile == Init /\ [][NextFile]_vars

\* one record at a time, through every route that ends in save_to_db
NextReconcile ==
    \/ \E o \in Opps : Call_save_opportunities(<<o>>)
    \/ Call_sync_opportunities_from_file
    \/ \E o \in Opps : Call_save_to_db(<<o>>)
    \/ \E o \in Opps : Call_import_from_json([kind |-> "list", opps |-> <<o>>])
    \/ \E tid \in StoreTids, s \in Statuses : Call_update_opportunity_status(tid, s)
    \/ Return

SpecReconcile == Init /\ [][NextReconcile]_vars

PipelineTids == {"t1", "", NoneId}

\* the pipeline: raw threads are saved, scored into the opportunities file and
\* synchronized into the store; the operator sets statuses in between
NextPipeline ==
    \/ \E threads \in SeqsUpTo(Threads, MaxBatch) : Call_save_raw_threads(threads)
    \/ \E now \in Times : Call_process_threads_to_opportunities(now)
    \/ Call_sync_opportunities_from_file
    \/ \E tid \in PipelineTids : Call_update_opportunity_status(tid, "processed")
    \/ Return

SpecPipeline == Init /\ [][NextPipeline]_vars

\* inputs of calculate_opportunity_score: engagement below, inside and above the
\* caps; timestamps that are old, fresh, in the future, with an offset, unusable
ScoreThreads ==
    {MkThread("t1", <<>>, <<>>, <<>>, upvotes, comments, created_utc) :
        upvotes \in {-4000, 0, 150, 1000},
        comments \in {0, 3, 400},
        created_utc \in {Invalid, Aware(100), Naive(-400), Naive(0), Naive(100), Naive(500)}}

ScoreIntents == {"DISCOVERY", "COMPARISON", "SHOWCASE", "QUESTION", "GENERAL", "OTHER"}

MkMatch(strength) ==
    [keyword |-> <<>>, program_name |-> "GamingGear", program_id |-> 2,
     strength |-> strength, title_match |-> strength >= 8, count |-> 1,
     subreddit_relevant |-> FALSE]

ScoreMatches == {<<>>, <<MkMatch(5)>>, <<MkMatch(8), MkMatch(10)>>, <<MkMatch(10), MkMatch(5)>>}

\* datetime.now() at the calls of the scorer
ScoreTimes == {100}

NextScore ==
    \/ \E thread \in ScoreThreads, intent \in ScoreIntents, matches \in ScoreMatches,
            now \in ScoreTimes :
            Call_calculate_opportunity_score(thread, intent, matches, now)
    \/ Return

SpecScore == Init /\ [][NextScore]_vars

----------------------------------------------------------------------------
(* Inputs of detect_thread_intent *)

\* titles: 'best mouse for FPS' (DISCOVERY and, through the 'or' of 'for', COMPARISON);
\* 'mouse vs keyboard' (COMPARISON); 'I made a tool' (SHOWCASE); 'how to pick' (QUESTION);
\* 'what?' (nothing but the final question mark); 'hello' (no pattern); 'I made this or
\* that' (COMPARISON and SHOWCASE); 'check out my rig?' (SHOWCASE, and QUESTION when the
\* text ends here); 'need help' (QUESTION once the body supplies ' with'); 'Which one?'
\* (upper case, final question mark); '' (an empty title); 'problem with keys' (QUESTION)
IntentTitles ==
    {<<"b", "e", "s", "t", " ", "m", "o", "u", "s", "e", " ", "f", "o", "r", " ", "F",
        "P", "S">>,
     <<"m", "o", "u", "s", "e", " ", "v", "s", " ", "k", "e", "y", "b", "o", "a", "r",
        "d">>,
     <<"I", " ", "m", "a", "d", "e", " ", "a", " ", "t", "o", "o", "l">>,
     <<"h", "o", "w", " ", "t", "o", " ", "p", "i", "c", "k">>,
     <<"w", "h", "a", "t", "?">>,
     <<"h", "e", "l", "l", "o">>,
     <<"I", " ", "m", "a", "d", "e", " ", "t", "h", "i", "s", " ", "o", "r", " ", "t",
        "h", "a", "t">>,
     <<"c", "h", "e", "c", "k", " ", "o", "u", "t", " ", "m", "y", " ", "r", "i", "g",
        "?">>,
     <<"n", "e", "e", "d", " ", "h", "e", "l", "p">>,
     <<"W", "h", "i", "c", "h", " ", "o", "n", "e", "?">>,
     <<>>,
     <<"p", "r", "o", "b", "l", "e", "m", " ", "w", "i", "t", "h", " ", "k", "e", "y",
        "s">>}

\* an empty body, a null body, and bodies that complete or break a pattern
IntentBodies ==
    {<<>>, NoneText,
     <<"r", "e", "a", "l", "l", "y", "?">>,
     <<"t", "h", "a", "n", "k", "s">>,
     <<"w", "h", "a", "t", " ", "d", "o", " ", "y", "o", "u", " ", "s", "u", "g", "g",
        "e", "s", "t">>,
     <<"c", "o", "m", "p", "a", "r", "e", " ", "t", "h", "e", "m">>,
     <<"a", "n", "y", " ", "i", "d", "e", "a", "s", "?", "\n">>,
     <<"h", "e", "l", "p", " ", "m", "e", "\n", "c", "h", "o", "o", "s", "e">>,
     <<"m", "e", " ", "w", "i", "t", "h", " ", "i", "t">>}

Call_detect_thread_intent(title, body) ==
    /\ Called("detect_thread_intent", [title |-> title, body |-> body])
    /\ ret' = detect_thread_intent(title, body)
    /\ UNCHANGED <<db, Files>>

NextIntent ==
    \/ \E title \in IntentTitles, body \in IntentBodies :
            Call_detect_thread_intent(title, body)
    \/ Return

SpecIntent == Init /\ [][NextIntent]_vars

----------------------------------------------------------------------------
(* Inputs of match_affiliate_keywords *)

\* titles: 'best gaming mouse'; 'Best Gaming Mouse or best gaming mouse'; 'AI writer
\* review'; 'which mouse'; 'best gaming'
MatchTitles ==
    {<<"b", "e", "s", "t", " ", "g", "a", "m", "i", "n", "g", " ", "m", "o", "u", "s",
        "e">>,
     <<"B", "e", "s", "t", " ", "G", "a", "m", "i", "n", "g", " ", "M", "o", "u", "s",
        "e", " ", "o", "r", " ", "b", "e", "s", "t", " ", "g", "a", "m", "i", "n", "g", " ",
        "m", "o", "u", "s", "e">>,
     <<"A", "I", " ", "w", "r", "i", "t", "e", "r", " ", "r", "e", "v", "i", "e", "w">>,
     <<"w", "h", "i", "c", "h", " ", "m", "o", "u", "s", "e">>,
     <<"b", "e", "s", "t", " ", "g", "a", "m", "i", "n", "g">>}

\* bodies: empty; null: 'mouse'; 'best gaming mouse'; 'best gaming mouse best gaming mouse
\* best gaming mouse best gaming mouse'; 'content generation tool and AI writer review'
MatchBodies ==
    {<<>>, NoneText,
     <<"m", "o", "u", "s", "e">>,
     <<"b", "e", "s", "t", " ", "g", "a", "m", "i", "n", "g", " ", "m", "o", "u", "s",
        "e">>,
     <<"b", "e", "s", "t", " ", "g", "a", "m", "i", "n", "g", " ", "m", "o", "u", "s",
        "e", " ", "b", "e", "s", "t", " ", "g", "a", "m", "i", "n", "g", " ", "m", "o", "u",
        "s", "e", " ", "b", "e", "s", "t", " ", "g", "a", "m", "i", "n", "g", " ", "m", "o",
        "u", "s", "e", " ", "b", "e", "s", "t", " ", "g", "a", "m", "i", "n", "g", " ", "m",
        "o", "u", "s", "e">>,
     <<"c", "o", "n", "t", "e", "n", "t", " ", "g", "e", "n", "e", "r", "a", "t", "i",
        "o", "n", " ", "t", "o", "o", "l", " ", "a", "n", "d", " ", "A", "I", " ", "w", "r",
        "i", "t", "e", "r", " ", "r", "e", "v", "i", "e", "w">>}

\* subreddits: 'r/GamingMouse'; 'r/gamingmouse'; 'r/SEO'; 'r/Blogging'; 'r/pcgaming'
MatchSubreddits ==
    {<<"r", "/", "G", "a", "m", "i", "n", "g", "M", "o", "u", "s", "e">>,
     <<"r", "/", "g", "a", "m", "i", "n", "g", "m", "o", "u", "s", "e">>,
     <<"r", "/", "S", "E", "O">>,
     <<"r", "/", "B", "l", "o", "g", "g", "i", "n", "g">>,
     <<"r", "/", "p", "c", "g", "a", "m", "i", "n", "g">>}

Call_match_affiliate_keywords(title, body, subreddit) ==
    /\ Called("match_affiliate_keywords",
              [title |-> title, body |-> body, subreddit |-> subreddit])
    /\ ret' = match_affiliate_keywords(title, body, subreddit)
    /\ UNCHANGED <<db, Files>>

NextMatch ==
    \/ \E title \in MatchTitles, body \in MatchBodies, subreddit \in MatchSubreddits :
            Call_match_affiliate_keywords(title, body, subreddit)
    \/ Return

SpecMatch == Init /\ [][NextMatch]_vars

----------------------------------------------------------------------------
(* Inputs of determine_action_type *)

\* every whole score from 0 to 100 and the scores next to the threshold
ActionScores == {Points(n) : n \in 0..100} \cup {Points(70) - 1, Points(70) + 1}

Call_determine_action_type(score, intent) ==
    /\ Called("determine_action_type", [score |-> score, intent |-> intent])
    /\ ret' = determine_action_type(score, intent)
    /\ UNCHANGED <<db, Files>>

NextAction ==
    \/ \E score \in ActionScores, intent \in ScoreIntents :
            Call_determine_action_type(score, intent)
    \/ Return

SpecAction == Init /\ [][NextAction]_vars

----------------------------------------------------------------------------
(* import_from_json on its own *)

NextImport ==
    \/ \E c \in FileContents \cup BrokenLists : Call_import_from_json(c)
    \/ \E tid \in StoreTids : Call_update_opportunity_status(tid, "processed")
    \/ Return

SpecImport == Init /\ [][NextImport]_vars

----------------------------------------------------------------------------
(* run_full_crawler (run_crawler.py).  Every access to a file is one step; an  *)
(* invocation r keeps its position and its history in run[r]:                  *)
(*   written  the statuses it has passed to update_status, in order            *)
(*   steps    the pipeline steps it has started, in order                      *)
(*   raised   a step has raised                                                *)
(*   result   the value it returned                                            *)

\* last moment of the clock
MaxClock == 3

\* 3600 seconds, in half hours
MinGap == 2

CallState == <<pc, op, arg, pre, ret, repeat>>

Store == <<db, Files>>

\* the file update_status leaves
update_status(status, now) == [exists |-> TRUE, status |-> status, last_updated |-> now]

\* True when there is no status file or the last update is at least an hour old
check_last_run(file, now) ==
    IF file.exists THEN now - file.last_updated >= MinGap ELSE TRUE

\* what fetch_multiple_subreddits brings back
ScrapeResults == {<<>>, <<ThreadGood>>, <<ThreadShowcase>>}

At(r, position) == run[r].pc = position

\* the gate: the status file is read, nothing is written
Invoke(r, force) ==
    /\ At(r, "idle")
    /\ IF ~force /\ ~check_last_run(statusFile, clock)
       THEN run' = [run EXCEPT ![r].pc = "returned", ![r].force = force,
                               ![r].result = FALSE]
       ELSE run' = [run EXCEPT ![r].pc = "try", ![r].force = force]
    /\ UNCHANGED <<statusFile, clock, Store, CallState>>

\* update_status('running')
Begin(r) ==
    /\ At(r, "try")
    /\ statusFile' = update_status("running", clock)
    /\ run' = [run EXCEPT ![r].pc = "scrape", ![r].written = Append(@, "running")]
    /\ UNCHANGED <<clock, Store, CallState>>

\* step 1: fetch_multiple_subreddits and save_raw_threads; either may raise
Scrape(r, threads, raises) ==
    /\ At(r, "scrape")
    /\ IF raises
       THEN /\ run' = [run EXCEPT ![r].pc = "except", ![r].raised = TRUE,
                                  ![r].steps = Append(@, "scrape")]
            /\ UNCHANGED RawFile
       ELSE /\ run' = [run EXCEPT ![r].pc = "score", ![r].steps = Append(@, "scrape")]
            /\ rawFile' = save_raw_threads(rawFileExists, rawFile, threads)
            /\ rawFileExists' = TRUE
    /\ UNCHANGED <<statusFile, clock, db, OppFile, CallState>>

\* step 2: process_threads_to_opportunities; json.load of the raw file may raise
Score(r, now, raises) ==
    /\ At(r, "score")
    /\ IF raises
       THEN /\ run' = [run EXCEPT ![r].pc = "except", ![r].raised = TRUE,
                                  ![r].steps = Append(@, "score")]
            /\ UNCHANGED OppFile
       ELSE /\ run' = [run EXCEPT ![r].pc = "sync", ![r].steps = Append(@, "score")]
            /\ IF rawFileExists
               THEN /\ oppFile' = save_opportunities(oppFileExists, oppFile,
                                        process_threads_to_opportunities(rawFile, now))
                    /\ oppFileExists' = TRUE
               ELSE UNCHANGED OppFile
    /\ UNCHANGED <<statusFile, clock, db, RawFile, CallState>>

\* step 3: sync_opportunities_from_file; it catches what it raises
Sync(r) ==
    /\ At(r, "sync")
    /\ db' = sync_opportunities_from_file(db, oppFileExists, oppFile).table
    /\ run' = [run EXCEPT ![r].pc = "report", ![r].steps = Append(@, "sync")]
    /\ UNCHANGED <<statusFile, clock, Files, CallState>>

\* step 4 reads the store; then update_status('completed') and return True
Complete(r) ==
    /\ At(r, "report")
    /\ statusFile' = update_status("completed", clock)
    /\ run' = [run EXCEPT ![r].pc = "returned", ![r].result = TRUE,
                            ![r].written = Append(@, "completed")]
    /\ UNCHANGED <<clock, Store, CallState>>

\* (variant) the handler returns False without recording the error
Except_unrecorded(r) ==
    /\ At(r, "except")
    /\ run' = [run EXCEPT ![r].pc = "returned", ![r].result = FALSE]
    /\ UNCHANGED <<statusFile, clock, Store, CallState>>

\* except Exception: update_status('error') and return False
Except(r) ==
    /\ At(r, "except")
    /\ statusFile' = update_status("error", clock)
    /\ run' = [run EXCEPT ![r].pc = "returned", ![r].result = FALSE,
                            ![r].written = Append(@, "error")]
    /\ UNCHANGED <<clock, Store, CallState>>

\* the caller has the result; the record is free for a later invocation
Forget(r) ==
    /\ At(r, "returned")
    /\ run' = [run EXCEPT ![r] = NotInvoked]
    /\ UNCHANGED <<statusFile, clock, Store, CallState>>

\* half an hour passes
Tick ==
    /\ clock < MaxClock
    /\ clock' = clock + 1
    /\ UNCHANGED <<statusFile, run, Store, CallState>>

\* one invocation at a time, each step taken eventually
NextRun ==
    \/ \E force \in BOOLEAN : Invoke(1, force)
    \/ Begin(1)
    \/ \E threads \in ScrapeResults, raises \in BOOLEAN : Scrape(1, threads, raises)
    \/ \E now \in Times, raises \in BOOLEAN : Score(1, now, raises)
    \/ Sync(1)
    \/ Complete(1)
    \/ Except(1)
    \/ Forget(1)
    \/ Tick

\* the steps of an invocation are straight-line code: none of them waits
RunFairness ==
    /\ WF_vars(Begin(1))
    /\ WF_vars(\E threads \in ScrapeResults, raises \in BOOLEAN : Scrape(1, threads, raises))
    /\ WF_vars(\E now \in Times, raises \in BOOLEAN : Score(1, now, raises))
    /\ WF_vars(Sync(1))
    /\ WF_vars(Complete(1))
    /\ WF_vars(Except(1))

SpecRun == Init /\ [][NextRun]_vars /\ RunFairness

\* two processes invoke run_full_crawler; their steps interleave
NextOverlap ==
    \E r \in Runs :
        \/ \E force \in BOOLEAN : Invoke(r, force)
        \/ Begin(r)
        \/ \E threads \in ScrapeResults, raises \in BOOLEAN : Scrape(r, threads, raises)
        \/ \E now \in Times, raises \in BOOLEAN : Score(r, now, raises)
        \/ Sync(r)
        \/ Complete(r)
        \/ Except(r)
        \/ Forget(r)
        \/ Tick

SpecOverlap == Init /\ [][NextOverlap]_vars

----------------------------------------------------------------------------
(* Properties of the store-level merge (save_to_db) *)

NoSharedThreadId(list) ==
    \A i, j \in 1..Len(list) : i # j => list[i].thread_id # list[j].thread_id

Returned(name) == pc = "returned" /\ op = name

\* the records save_to_db received in the call that returned last
Incoming ==
    IF op = "save_to_db" THEN arg
    ELSE IF op = "import_from_json" THEN arg.opps
    ELSE IF op = "sync_opportunities_from_file" THEN pre.oppFile
    ELSE <<>>

\* the table after the first k records of the batch have been handled
TableAfter(k) == save_to_db(pre.db, SubSeq(Incoming, 1, k)).table

\* C1: starting from an empty store, after any sequence of save_to_db calls
\* (batches may repeat a thread_id) no two stored records share a thread_id.
C1_StoreThreadIdsUnique == NoSharedThreadId(db)

C1_Witness ==
    /\ Returned("save_to_db")
    /\ Len(arg) = 2
    /\ arg[1].thread_id = arg[2].thread_id
    /\ arg[1] # arg[2]
    /\ arg[1].thread_id \notin thread_ids(pre.db)
    /\ Len(pre.db) = 1
    /\ Len(db) = 2

\* C2: for an incoming record whose thread_id is already stored, the stored record
\* becomes the incoming one if the incoming opportunity_score differs from the
\* stored one, or the action_type differs, or the incoming status is "new"; when
\* none of the three holds the stored record stays exactly as it was.  Stated for
\* every record of the batch, against the table the loop has built before it.
C2_UpdateIffChangedOrNew ==
    Returned("save_to_db") =>
        /\ db = TableAfter(Len(arg))
        /\ \A k \in 1..Len(arg) :
            LET before == TableAfter(k - 1)
                after == TableAfter(k)
                opp == arg[k]
            IN \A i \in 1..Len(before) :
                 before[i].thread_id = opp.thread_id =>
                    LET differs ==
                          \/ opp.opportunity_score # before[i].opportunity_score
                          \/ opp.action_type # before[i].action_type
                          \/ opp.status = "new"
                    IN /\ differs => after[i] = opp
                       /\ ~differs => after = before

C2_Witness ==
    /\ Returned("save_to_db")
    /\ Len(arg) = 2 /\ Len(pre.db) = 2 /\ Len(db) = 2
    /\ \E i \in 1..2 :
        \* the first record differs in status only, is not "new", and is dropped
        /\ pre.db[i].thread_id = arg[1].thread_id
        /\ pre.db[i].opportunity_score = arg[1].opportunity_score
        /\ pre.db[i].action_type = arg[1].action_type
        /\ pre.db[i].status = "queued"
        /\ arg[1].status = "processed"
        /\ TableAfter(1) = pre.db
        \* the second changes only the action and is written
        /\ arg[2].thread_id = arg[1].thread_id
        /\ arg[2].opportunity_score = arg[1].opportunity_score
        /\ arg[2].action_type # arg[1].action_type
        /\ arg[2].status = "processed"
        /\ db[i] = arg[2]

\* C3: calling save_to_db(B) again right after save_to_db(B) inserts nothing
\* (returns 0) and leaves every stored record as the first call left it.
C3_SaveTwiceIsIdempotent ==
    (Returned("save_to_db") /\ repeat) => (ret = 0 /\ db = pre.db)

C3_Witness ==
    /\ Returned("save_to_db") /\ repeat
    /\ Len(arg) = 2
    /\ arg[1].thread_id = arg[2].thread_id
    /\ arg[1].opportunity_score # arg[2].opportunity_score
    /\ arg[1].status = "new"
    /\ Len(db) = 2

\* C4: save_to_db returns the number of records it inserted: the number of
\* distinct thread_ids of the batch that were not stored before the call.  Updates
\* are not counted, and the store grows by exactly the value returned.
C4_ReturnsInsertCount ==
    Returned("save_to_db") =>
        /\ ret = Cardinality(thread_ids(arg) \ thread_ids(pre.db))
        /\ Len(db) = Len(pre.db) + ret

C4_Witness ==
    /\ Returned("save_to_db")
    /\ ret = 1
    /\ Len(arg) = 2 /\ Len(pre.db) = 1 /\ Len(db) = 2
    /\ db[1] # pre.db[1]

\* C5: a stored opportunity whose status is "processed", "queued" or "ignored" and
\* whose thread_id arrives again through save_to_db (called directly, by
\* import_from_json or by sync_opportunities_from_file) with the same
\* opportunity_score and action_type but status "new" is overwritten with the
\* incoming record: its status is "new" afterwards.
C5_NewStatusOverwritesOperatorStatus ==
    (pc = "returned" /\ Len(Incoming) = 1) =>
        \A i \in 1..Len(pre.db) :
            (/\ pre.db[i].thread_id = Incoming[1].thread_id
             /\ pre.db[i].status \in {"processed", "queued", "ignored"}
             /\ pre.db[i].opportunity_score = Incoming[1].opportunity_score
             /\ pre.db[i].action_type = Incoming[1].action_type
             /\ Incoming[1].status = "new")
            => (db[i] = Incoming[1] /\ db[i].status = "new")

\* "queued" is no status of Opps: only update_opportunity_status stores it
C5_Witness ==
    /\ Returned("sync_opportunities_from_file")
    /\ Len(Incoming) = 1
    /\ \E i \in 1..Len(pre.db) :
        /\ pre.db[i].thread_id = Incoming[1].thread_id
        /\ pre.db[i].status = "queued"
        /\ pre.db[i].opportunity_score = Incoming[1].opportunity_score
        /\ pre.db[i].action_type = Incoming[1].action_type
        /\ db[i].status = "new"

----------------------------------------------------------------------------
(* Properties of the file-level merge (save_opportunities) *)

\* C6: starting from an absent opportunities file, after any sequence of
\* save_opportunities calls (batches may repeat a thread_id) the file never holds
\* two records with the same thread_id.
C6_FileThreadIdsUnique == NoSharedThreadId(oppFile)

C6_Witness ==
    /\ Returned("save_opportunities")
    /\ Len(arg) = 2
    /\ arg[1].thread_id = arg[2].thread_id
    /\ arg[1].thread_id \notin thread_ids(pre.oppFile)
    /\ Len(pre.oppFile) = 1
    /\ Len(oppFile) = 2

\* C7: save_opportunities is append-if-absent: every record already in the file
\* keeps all its fields and its position, whatever the batch holds for its
\* thread_id; what is appended are the batch's records whose thread_id was not in
\* the file, the first of each thread_id, in batch order.
C7_FileMergeAppendsOnly ==
    Returned("save_opportunities") =>
        LET old == pre.oppFile
            added == SubSeq(oppFile, Len(old) + 1, Len(oppFile))
            firsts == {k \in 1..Len(arg) :
                         /\ arg[k].thread_id \notin thread_ids(old)
                         /\ \A j \in 1..(k-1) : arg[j].thread_id # arg[k].thread_id}
        IN /\ Len(oppFile) >= Len(old)
           /\ SubSeq(oppFile, 1, Len(old)) = old
           /\ Len(added) = Cardinality(firsts)
           /\ \A k \in firsts :
                 added[Cardinality({j \in firsts : j <= k})] = arg[k]

C7_Witness ==
    /\ Returned("save_opportunities")
    /\ Len(arg) = 2 /\ Len(pre.oppFile) = 1 /\ Len(oppFile) = 2
    /\ arg[1].thread_id = pre.oppFile[1].thread_id
    /\ arg[1].opportunity_score # pre.oppFile[1].opportunity_score
    /\ arg[1].action_type # pre.oppFile[1].action_type
    /\ arg[1].status # pre.oppFile[1].status
    /\ oppFile[2] = arg[2]

----------------------------------------------------------------------------
(* Properties of the pipeline *)

Records(list) == {list[n] : n \in 1..Len(list)}

\* the threads of the model that reach the matcher and match no keyword
Matchless ==
    {t \in Threads :
        /\ ~Falsy(dict_get(t.title, <<>>))
        /\ ~Falsy(dict_get(t.subreddit, <<>>))
        /\ match_affiliate_keywords(dict_get(t.title, <<>>), dict_get(t.body, <<>>),
                                    dict_get(t.subreddit, <<>>)) = <<>>}

\* C8: after any sequence of pipeline passes, every opportunity in the
\* opportunities file and in the store has a non-empty affiliate_matches list, and
\* a thread without a keyword match has no record in either.
C8_StoredOpportunitiesHaveMatches ==
    /\ \A r \in Records(oppFile) \cup Records(db) : r.affiliate_matches # <<>>
    /\ \A t \in Records(rawFile) \cap Matchless :
            t.id \notin thread_ids(oppFile) \cup thread_ids(db)

C8_Witness ==
    /\ Returned("sync_opportunities_from_file")
    /\ Records(rawFile) \cap Matchless # {}
    /\ Len(rawFile) = 2
    /\ Len(oppFile) = 1
    /\ Len(db) = 1
    /\ ret = 1

AbsentId(id) == id \in {MissingId, NoneId, ""}

\* C9: process_threads_to_opportunities skips every raw thread whose id, title or
\* subreddit is missing: it produces no opportunity for it, so no opportunity with
\* an absent (missing, null or empty) thread_id reaches the opportunities file or
\* the store.
C9_ThreadsWithoutIdAreSkipped ==
    /\ \A r \in Records(oppFile) \cup Records(db) : ~AbsentId(r.thread_id)
    /\ Returned("process_threads_to_opportunities") =>
            /\ \A r \in Records(ret) : ~AbsentId(r.thread_id)
            /\ Len(ret) <= Cardinality({n \in 1..Len(pre.rawFile) :
                                            /\ ~AbsentId(pre.rawFile[n].id)
                                            /\ ~Falsy(dict_get(pre.rawFile[n].title, <<>>))
                                            /\ ~Falsy(dict_get(pre.rawFile[n].subreddit, <<>>))})

----------------------------------------------------------------------------
(* Properties of the scorer *)

----------------------------------------------------------------------------
(* Properties of the intent classifier *)

\* the text of the call matches some pattern of the category called name
CategoryHit(name) ==
    \E c \in 1..Len(INTENT_PATTERNS) :
        /\ INTENT_PATTERNS[c].intent = name
        /\ category_matches(INTENT_PATTERNS[c], combined_text(arg.title, arg.body))

\* C11: detect_thread_intent returns the first category, in the order DISCOVERY,
\* COMPARISON, SHOWCASE, QUESTION, that has a matching pattern: DISCOVERY wins
\* over COMPARISON, a later category is returned only when no earlier one matches,
\* and a text that matches no pattern is GENERAL.
C11_FirstMatchingCategoryWins ==
    Returned("detect_thread_intent") =>
        ret = IF CategoryHit("DISCOVERY") THEN "DISCOVERY"
              ELSE IF CategoryHit("COMPARISON") THEN "COMPARISON"
              ELSE IF CategoryHit("SHOWCASE") THEN "SHOWCASE"
              ELSE IF CategoryHit("QUESTION") THEN "QUESTION"
              ELSE "GENERAL"

\* a text that matches a DISCOVERY and a COMPARISON pattern comes back DISCOVERY
C11_Witness ==
    /\ Returned("detect_thread_intent")
    /\ CategoryHit("DISCOVERY")
    /\ CategoryHit("COMPARISON")
    /\ ret = "DISCOVERY"

\* the last character of the thread's text: of the body, or of the title when the
\* body is empty or null
EndsInQuestionMark(title, body) ==
    LET last == IF Falsy(body) THEN title ELSE body
    IN Len(last) >= 1 /\ last[Len(last)] = "?"

\* C12: a thread whose text ends in '?' and matches no DISCOVERY, COMPARISON or
\* SHOWCASE pattern is classified QUESTION, a title ending in '?' with an empty
\* or absent body included.
C12_FinalQuestionMarkIsQuestion ==
    Returned("detect_thread_intent") =>
        ((/\ EndsInQuestionMark(arg.title, arg.body)
          /\ ~CategoryHit("DISCOVERY")
          /\ ~CategoryHit("COMPARISON")
          /\ ~CategoryHit("SHOWCASE"))
            => ret = "QUESTION")

----------------------------------------------------------------------------
(* Properties of the keyword matcher *)

\* the strength the formula gives the match m of the call, in tenths
FormulaStrength(m) ==
    LET str == combined_text(arg.title, arg.body)
        base == IF Contains(Lower(arg.title), m.keyword) THEN 7 ELSE 4
        occurrence_count == Count(str, m.keyword)
        frequency == IF occurrence_count >= 3 THEN 3 ELSE occurrence_count
        category == affiliate_programs_table[m.program_id].category
        bonus == IF \E n \in 1..Len(subreddits_table) :
                        /\ subreddits_table[n].category = category
                        /\ Lower(subreddits_table[n].name) = Lower(arg.subreddit)
                 THEN 2 ELSE 0
    IN base + frequency + bonus

\* C13: every match produced by match_affiliate_keywords has
\* strength = min(1.0, base + min(0.3, 0.1 * occurrence_count) + bonus), base 0.7
\* for a keyword in the title and 0.4 otherwise, bonus 0.2 when the subreddit is,
\* case-insensitively, one of those of the program's category; the strength lies
\* in [0,1].
C13_StrengthFormula ==
    Returned("match_affiliate_keywords") =>
        \A n \in 1..Len(ret) :
            /\ ret[n].strength \in 0..10
            /\ ret[n].strength = IF FormulaStrength(ret[n]) >= 10 THEN 10
                                 ELSE FormulaStrength(ret[n])

\* a keyword in the title, repeated in the body, in a subreddit of the program's
\* category: the sum passes 1.0 and the strength is capped
C13_Witness ==
    /\ Returned("match_affiliate_keywords")
    /\ \E n \in 1..Len(ret) :
        /\ ret[n].title_match
        /\ ret[n].count >= 4
        /\ ret[n].subreddit_relevant
        /\ FormulaStrength(ret[n]) > 10
        /\ ret[n].strength = 10

----------------------------------------------------------------------------
(* Properties of determine_action_type *)

\* C14: determine_action_type returns 'comment' exactly when score >= 70 or the
\* intent is DISCOVERY, COMPARISON or QUESTION, and 'post' in every other case.
C14_CommentIffHighScoreOrAskingIntent ==
    Returned("determine_action_type") =>
        /\ ret \in {"comment", "post"}
        /\ ret = "comment" <=>
                \/ arg.score >= Points(70)
                \/ arg.intent = "DISCOVERY"
                \/ arg.intent = "COMPARISON"
                \/ arg.intent = "QUESTION"

\* a GENERAL thread at exactly 70 points gets a comment
C14_Witness ==
    /\ Returned("determine_action_type")
    /\ arg.score = Points(70)
    /\ arg.intent = "GENERAL"
    /\ ret = "comment"

----------------------------------------------------------------------------
(* Properties of the priority tier and of the scores the pipeline can produce *)

TierOf(score) ==
    IF score >= Points(80) THEN "high"
    ELSE IF score >= Points(60) THEN "medium"
    ELSE "low"

\* C15: every opportunity the pipeline writes has priority 'high' for a score of
\* 80 or more, 'medium' from 60 up to 80 and 'low' below 60, and every record of
\* the opportunities file and of the store still has it after any sequence of
\* pipeline passes, synchronizations into the store and status updates.
C15_PriorityFollowsScore ==
    /\ \A r \in Records(oppFile) \cup Records(db) : r.priority = TierOf(r.opportunity_score)
    /\ Returned("process_threads_to_opportunities") =>
            \A r \in Records(ret) : r.priority = TierOf(r.opportunity_score)

\* the store holds a 'medium' record and a 'high' one whose status the operator
\* has set
C15_Witness ==
    /\ Returned("update_opportunity_status")
    /\ ret = TRUE
    /\ \E r \in Records(db) : r.priority = "medium" /\ r.opportunity_score < Points(80)
    /\ \E r \in Records(db) :
            /\ r.priority = "high"
            /\ r.opportunity_score >= Points(80)
            /\ r.status = "processed"

\* C19: every opportunity process_threads_to_opportunities produces from threads
\* with non-negative upvotes and comments has a score of at least 75, so its
\* action_type is 'comment' and its priority is not 'low'; no record of the
\* opportunities file or of the store is a 'post' or 'low' either.
C19_PipelineScoresAtLeast75 ==
    (\A t \in Records(rawFile) : t.upvotes >= 0 /\ t.comments >= 0) =>
        /\ \A r \in Records(oppFile) \cup Records(db) :
                /\ r.opportunity_score >= Points(75)
                /\ r.action_type = "comment"
                /\ r.priority # "low"
        /\ Returned("process_threads_to_opportunities") =>
                \A r \in Records(ret) :
                    /\ r.opportunity_score >= Points(75)
                    /\ r.action_type = "comment"
                    /\ r.priority # "low"

\* the floor is reached: SHOWCASE (5), one hit in the body (0.5), no engagement,
\* a thread older than ten days
C19_Witness ==
    /\ Returned("process_threads_to_opportunities")
    /\ \E r \in Records(ret) :
            /\ r.opportunity_score = Points(75)
            /\ r.intent = "SHOWCASE"
            /\ r.affiliate_matches[1].match_strength = 5
            /\ r.action_type = "comment"
            /\ r.priority = "medium"

----------------------------------------------------------------------------
(* Properties of import_from_json *)

----------------------------------------------------------------------------
(* Properties of run_full_crawler *)

PastGate(r) == run[r].pc \in {"try", "scrape", "score", "sync", "report", "except"}

IsPrefix(s, t) == Len(s) <= Len(t) /\ SubSeq(t, 1, Len(s)) = s

\* what an invocation has recorded and done, at every position
RunHistoryOk(r) ==
    LET h == run[r] IN
    /\ h.pc \in {"idle", "try"} => h.written = <<>> /\ h.steps = <<>>
    /\ h.pc \in {"scrape", "score", "sync", "report", "except"} => h.written = <<"running">>
    /\ IsPrefix(h.steps, <<"scrape", "score", "sync">>)
    /\ h.pc = "report" => h.steps = <<"scrape", "score", "sync">> /\ ~h.raised
    /\ h.pc = "except" => h.raised
    /\ h.pc = "returned" =>
            \/ h.written = <<>> /\ h.steps = <<>> /\ ~h.force /\ ~h.result
            \/ /\ h.written = <<"running", "completed">>
               /\ h.steps = <<"scrape", "score", "sync">>
               /\ ~h.raised
               /\ h.result
            \/ /\ h.written = <<"running", "error">>
               /\ h.raised
               /\ Len(h.steps) \in 1..2
               /\ ~h.result

\* C17: an invocation of run_full_crawler that passes the gate records 'running'
\* first and then exactly one terminal status, 'completed' when scrape, scoring
\* and sync succeeded and 'error' when one of them raised; it returns instead of
\* raising, runs no step twice, always reaches its terminal status, and the
\* status file does not say 'running' once it has returned.
C17_RunRecordsOneTerminalStatus ==
    /\ [](RunHistoryOk(1) /\ (~PastGate(1) => statusFile.status # "running"))
    /\ (PastGate(1) ~> (run[1].pc = "returned" /\ Len(run[1].written) = 2))

\* scoring raised: 'running', then 'error', False returned, no sync
C17_Witness ==
    /\ run[1].pc = "returned"
    /\ run[1].written = <<"running", "error">>
    /\ run[1].steps = <<"scrape", "score">>
    /\ run[1].result = FALSE
    /\ statusFile.status = "error"

\* C18: of two unforced invocations of run_full_crawler that overlap in time at
\* most one passes check_last_run and executes scrape, scoring and sync, so the
\* writes of two runs never interleave.
C18_GateSerializesRuns ==
    \A r1, r2 \in Runs :
        (r1 # r2 /\ ~run[r1].force /\ ~run[r2].force) => ~(PastGate(r1) /\ PastGate(r2))

====
